---- MODULE Spec2Model ----
(***************************************************************************)
(* OpenCode server supervision (src-tauri/src/opencode.rs, lib.rs).        *)
(*                                                                         *)
(* The shared OpenCodeState (status, port, mcp_port, child) is guarded by  *)
(* one tokio mutex.  Every critical section of the source is one atomic    *)
(* step of the model; what the source does between two lock acquisitions   *)
(* (an HTTP request, a spawn, an event emitted after the lock is released) *)
(* is a step of its own, so that other tasks interleave exactly where the  *)
(* source lets them.  A computation that touches no shared state (path     *)
(* resolution, port probing, sleeping) is part of the step that follows.   *)
(***************************************************************************)
EXTENDS Integers, Sequences, FiniteSets, TLC

(* ---- program constants ------------------------------------------------ *)
OC_PORT_START == 59200
MCP_PORT_START == 59210
PORT_RANGE == 10
HEALTH_ATTEMPTS == 15
SIGKILL == 9
\* logging.rs: the capacity of the ring buffer
MAX_ENTRIES == 5000

(* ---- bounds of the model ---------------------------------------------- *)
\* number of sidecar processes that are spawned in one run of the application
MaxProcs == 2
\* how many leading ports of a band other programs may hold
MaxBusy == 1
\* iterations of the health loop where callers run concurrently
MaxPolls == 2
\* the length of an output line of the sidecar, in words
MaxLine == 3
\* calls of the logger in one run (counted from a buffer that is nearly full,
\* where the run starts with one)
MaxLogCalls == 4

\* concurrent tasks: c1 is the auto-start task of lib.rs at first; then both
\* run the commands the webview invokes
Callers == {"c1", "c2"}
Procs == 1..MaxProcs
\* exit codes a sidecar exits with on its own
ExitCodes == {0, 137}

(* ---- Option<T> as a set with at most one element ---------------------- *)
None == {}
Some(x) == {x}
Unwrap(o) == CHOOSE x \in o : TRUE

(* ---- OpenCodeStatus ---------------------------------------------------- *)
Msg(kind, n) == [kind |-> kind, n |-> n]
NoMsg == Msg("", 0)
Stopped == [tag |-> "Stopped", msg |-> NoMsg]
Starting == [tag |-> "Starting", msg |-> NoMsg]
Running == [tag |-> "Running", msg |-> NoMsg]
Error(m) == [tag |-> "Error", msg |-> m]

\* StatusPayload of the `opencode-status-changed` event
StatusPayload(s, p) == [status |-> s, port |-> p]
NoEvent == [status |-> [tag |-> "", msg |-> NoMsg], port |-> 0]

\* TerminatedPayload { code, signal }
Payload(c, s) == [code |-> c, signal |-> s]
NoPayload == Payload(None, None)

\* return value of a call
Ret(kind, p, m) == [kind |-> kind, port |-> p, msg |-> m]
NoRet == Ret("", 0, NoMsg)
Ok(p) == Ret("Ok", p, NoMsg)
Err(m) == Ret("Err", 0, m)
Unit == Ret("Unit", 0, NoMsg)
StudioStatusResult(s, e) == Ret("Studio", 0, Msg(s, e))
\* Err(String) of poll_studio_status
PollErr(m) == Ret("PollErr", 0, m)
\* Ok("http://127.0.0.1:{p}") and Err("MCP server not started yet") of get_mcp_url
Url(p) == Ret("Url", p, NoMsg)
UrlErr == Ret("UrlErr", 0, Msg("mcp_not_started", 0))
\* Ok((status, port)) of get_opencode_status
Snapshot(s, p) == Ret("Snapshot", p, s)

\* what the latest step did to the outside: the event it emitted (and whether
\* the state lock was held), its other effect, and the value it returned
Out(ev, locked, act, arg, ret) ==
  [ev |-> ev, locked |-> locked, act |-> act, arg |-> arg, ret |-> ret]
Quiet == Out(NoEvent, FALSE, "none", 0, NoRet)
Act(act, arg) == Out(NoEvent, FALSE, act, arg, NoRet)
Returned(ret) == Out(NoEvent, FALSE, "none", 0, ret)

VARIABLES
  status,     \* OpenCodeState.status
  port,       \* OpenCodeState.port
  mcp_port,   \* OpenCodeState.mcp_port
  child,      \* OpenCodeState.child : Option<CommandChild>
  pstate,     \* per sidecar process: "none" | "alive" | "dead"
  payload,    \* per sidecar process: the TerminatedPayload of its exit
  handler,    \* per sidecar process, its event handler thread: "none" | "recv" | "done"
  th,         \* per caller: program counter and locals of the call in progress
  out,        \* what the latest step did to the outside
  conf,       \* the instance checked, fixed by Init
  exited,     \* the application has exited (main window closed)
  log_buffer, \* logging.rs LOG_BUFFER : VecDeque<LogEntry>
  logged      \* how many times AppLogger::log was called

vars == <<status, port, mcp_port, child, pstate, payload, handler, th, out, conf, exited,
          log_buffer, logged>>
logs == <<log_buffer, logged>>
shared == <<status, port, mcp_port, child>>
procs == <<pstate, payload, handler>>

IdleT == [pc |-> "idle", port |-> 0, spawned |-> None, err |-> NoMsg,
          i |-> 0, ev |-> NoEvent, mcp |-> 0]

\* nothing was logged yet
NoLogs == log_buffer = <<>> /\ logged = 0

(* ---- what the surroundings of the application can do ------------------ *)
\* the ports other programs can hold when a start probes: the first k ports
\* of the OpenCode band and of the MCP band
BusySets ==
  {(OC_PORT_START .. OC_PORT_START + k - 1) \cup (MCP_PORT_START .. MCP_PORT_START + k - 1) :
     k \in 0..MaxBusy}

\* what the GET /mcp of step 1 comes back with: a failure of the request, a
\* non-success response, a body that is no JSON, a body without the
\* "roblox-studio" key, an entry without a string "status", or an entry with
\* its "status" and its "error" (0: no string "error" in the entry)
McpAnswer(kind, st, error) == [kind |-> kind, status |-> st, error |-> error]
McpStatuses == {"failed", "disabled", "needs_auth", "needs_client_registration",
                "connected", "pending"}
ErrorDetails == {0, 1}
McpAnswers ==
  {McpAnswer(k, "", 0) : k \in {"network_error", "http_error", "bad_json", "no_key"}}
    \cup {McpAnswer("entry", "", e) : e \in ErrorDetails}
    \cup {McpAnswer("entry", st, e) : st \in McpStatuses, e \in ErrorDetails}

\* what the GET /health of step 2 comes back with: a failure of the request,
\* a non-success response with its status code, or a success whose body has
\* pluginConnected true, false, absent, no boolean, or is no JSON
HealthAnswer(kind, code, plugin) == [kind |-> kind, code |-> code, plugin |-> plugin]
HttpErrors == {503}
PluginFields == {"true", "false", "no_field", "not_bool", "bad_json"}
HealthAnswers ==
  {HealthAnswer("network_error", 0, "")}
    \cup {HealthAnswer("http_error", c, "") : c \in HttpErrors}
    \cup {HealthAnswer("ok", 200, f) : f \in PluginFields}

\* the instance checked: the iterations of the health loop, the callers, the
\* sets of ports found busy by a probe, the answers of the two servers, and
\* the output lines of the sidecar that are observed
Conf(polls, callers) ==
  [polls |-> polls, callers |-> callers, busy |-> BusySets,
   mcp |-> McpAnswers, health |-> HealthAnswers, lines |-> {},
   log_calls |-> MaxLogCalls]

\* lib.rs, run(): the state is OpenCodeState::default(), nothing is spawned,
\* and setup has spawned the task that calls start_opencode_server
InitState ==
  /\ status = Stopped
  /\ port = 0
  /\ mcp_port = 0
  /\ child = None
  /\ pstate = [p \in Procs |-> "none"]
  /\ payload = [p \in Procs |-> NoPayload]
  /\ handler = [p \in Procs |-> "none"]
  /\ th = [t \in Callers |-> IF t = "c1" THEN [IdleT EXCEPT !.pc = "s_guard"] ELSE IdleT]
  /\ out = Quiet
  /\ exited = FALSE
  /\ NoLogs

\* two concurrent callers; the health loop cut down to MaxPolls iterations
Init ==
  /\ InitState
  /\ conf = Conf(MaxPolls, Callers)

(* ---- helpers ----------------------------------------------------------- *)
Goto(t, pc) == th' = [th EXCEPT ![t].pc = pc]
\* the call of t goes on at pc with only `err` of its locals in scope
Leave(t, pc, err) == th' = [th EXCEPT ![t] = [IdleT EXCEPT !.pc = pc, !.err = err]]
Set(t, r) == th' = [th EXCEPT ![t] = r]
At(t, pc) == ~exited /\ th[t].pc = pc
\* the call of t is over; its locals are gone
Done(t) == th' = [th EXCEPT ![t] = IdleT]
Alive == {p \in Procs : pstate[p] = "alive"}
Free == {p \in Procs : pstate[p] = "none"}
\* the wrapping and the saturating sum of two u16
wrapping_add(a, b) == (a + b) % 65536
saturating_add(a, b) == IF a + b > 65535 THEN 65535 ELSE a + b

\* the ports  start..start+PORT_RANGE-1  probed in order; `busy` cannot be bound
RECURSIVE probe(_, _, _)
probe(p, end, busy) ==
  IF p >= end THEN 0
  ELSE IF p \notin busy THEN p
  ELSE probe(p + 1, end, busy)

\* an allocation that takes the highest port of the band that can be bound
\* (variant refuted by C20_Allocate)
find_available_port_highest(start, busy) ==
  LET free == {q \in start .. (start + PORT_RANGE - 1) : q \notin busy}
  IN IF free = {} THEN start ELSE CHOOSE q \in free : \A r \in free : r <= q

\* fn find_available_port
find_available_port(start, busy) ==
  LET found == probe(start, saturating_add(start, PORT_RANGE), busy)
  IN IF found = 0 THEN start ELSE found

\* the processes of K are killed by a signal (those that still run)
Killed(K) ==
  /\ pstate' = [p \in Procs |-> IF p \in K /\ pstate[p] = "alive" THEN "dead" ELSE pstate[p]]
  /\ payload' = [p \in Procs |-> IF p \in K /\ pstate[p] = "alive"
                                 THEN Payload(None, Some(SIGKILL)) ELSE payload[p]]

(* ---- admission of new calls (keeps the number of processes bounded) ---- *)
PreSpawnPcs == {"s_guard", "admitted", "starting_emit", "ports", "spawn",
                "x_shutdown", "x_kill", "r_reap"}
CanSpawn == Cardinality(Free) > Cardinality({u \in Callers : th[u].pc \in PreSpawnPcs})

\* a new call is taken by an idle caller (callers are interchangeable: when
\* both are idle the first one takes it)
NewCall(t) ==
  /\ At(t, "idle")
  /\ t \in conf.callers
  /\ t = "c1" \/ th["c1"].pc # "idle"

\* start_opencode_server is entered (by the auto-start task, by restart_opencode)
EnterStart(t) == At(t, "s_guard")

(* ---- start_opencode_server -------------------------------------------- *)
\* a guard that publishes the status it found (variant refuted by C3_GuardNoOp)
StartGuardReturnPublishes(t) ==
  /\ EnterStart(t)
  /\ status.tag \in {"Running", "Starting"}
  /\ Done(t)
  /\ out' = Out(StatusPayload(status, port), FALSE, "none", 0, Ok(port))
  /\ UNCHANGED <<shared, procs, conf, logs, exited>>

\* the guard "don't double-start", status is Running or Starting: Ok(current.port)
StartGuardReturn(t) ==
  /\ EnterStart(t)
  /\ status.tag \in {"Running", "Starting"}
  /\ Done(t)
  /\ out' = Returned(Ok(port))
  /\ UNCHANGED <<shared, procs, conf, logs, exited>>

\* the guard is passed; the lock is released before anything else happens
StartGuardPass(t) ==
  /\ EnterStart(t)
  /\ status.tag \notin {"Running", "Starting"}
  /\ Set(t, [IdleT EXCEPT !.pc = "admitted"])
  /\ out' = Quiet
  /\ UNCHANGED <<shared, procs, conf, logs, exited>>

\* a set_status that does not copy the port out (variant refuted by
\* C16_WriteThenEvent)
set_status_no_port(t, s, pc) ==
  /\ status' = s
  /\ th' = [th EXCEPT ![t].ev = StatusPayload(s, 0), ![t].pc = pc]
  /\ out' = Quiet
  /\ UNCHANGED <<port, mcp_port, child, procs, conf, logs, exited>>

\* fn set_status, first half: the write under the lock (the port is copied out)
set_status(t, s, pc) ==
  /\ status' = s
  /\ th' = [th EXCEPT ![t].ev = StatusPayload(s, port), ![t].pc = pc]
  /\ out' = Quiet
  /\ UNCHANGED <<port, mcp_port, child, procs, conf, logs, exited>>

\* fn set_status, second half: emit_status after the lock is released; the
\* call goes on at pc, or returns ret
emit_after(t, pc, ret) ==
  /\ out' = Out(th[t].ev, FALSE, "none", 0, ret)
  /\ IF pc = "idle" THEN Done(t)
     ELSE th' = [th EXCEPT ![t].ev = NoEvent, ![t].pc = pc]
  /\ UNCHANGED <<shared, procs, conf, logs, exited>>

\* an error path that writes a reason of its own (variant refuted by
\* C23_ErrorWrittenAndReturned)
set_error_other_reason(t, e) ==
  /\ status' = Error(Msg("failed", 0))
  /\ th' = [th EXCEPT ![t] = [IdleT EXCEPT !.pc = "err_emit", !.err = e,
                                          !.ev = StatusPayload(Error(Msg("failed", 0)), port)]]
  /\ out' = Quiet
  /\ UNCHANGED <<port, mcp_port, child, procs, conf, logs, exited>>

\* start_opencode_server: Err(e) => set_status(Error(e)), the write; what is
\* left of the call is to emit the event and to return Err(e)
set_error(t, e) ==
  /\ status' = Error(e)
  /\ th' = [th EXCEPT ![t] = [IdleT EXCEPT !.pc = "err_emit", !.err = e,
                                          !.ev = StatusPayload(Error(e), port)]]
  /\ out' = Quiet
  /\ UNCHANGED <<port, mcp_port, child, procs, conf, logs, exited>>

\* bundled_nodejs_bin_dir() fails: set_status(Error(e)); return Err(e)
NodeDirFails(t) ==
  /\ At(t, "admitted")
  /\ set_error(t, Msg("nodejs_dir_not_found", 0))

\* set_status(Starting)
SetStarting(t) ==
  /\ At(t, "admitted")
  /\ set_status(t, Starting, "starting_emit")

\* a reaper that scans the OpenCode band and the MCP band only (variant
\* refuted by C28_ReapThenAllocate)
ReaperPortsTwoBands == OC_PORT_START .. (OC_PORT_START + PORT_RANGE * 2 - 1)

\* cleanup_stale_processes: for port in start..end
ReaperPorts == OC_PORT_START .. (OC_PORT_START + PORT_RANGE * 3 - 1)

\* fn cleanup_stale_processes: kill -9 of whatever lsof finds on 59200..59229
cleanup_stale_processes ==
  \E K \in SUBSET Alive : Killed(K)

\* the event of set_status(Starting) is emitted; do_start: cleanup_stale_processes()
EmitStartingReap(t) ==
  /\ At(t, "starting_emit")
  /\ cleanup_stale_processes
  /\ out' = Out(th[t].ev, FALSE, "reap", 0, NoRet)
  /\ th' = [th EXCEPT ![t].ev = NoEvent, ![t].pc = "ports"]
  /\ UNCHANGED <<shared, handler, conf, logs, exited>>

\* do_start: find_available_port twice, then s.port, s.mcp_port under the lock
WritePorts(t) ==
  /\ At(t, "ports")
  /\ \E busy \in conf.busy :
       /\ port' = find_available_port(OC_PORT_START, busy)
       /\ mcp_port' = find_available_port(MCP_PORT_START, busy)
       /\ th' = [th EXCEPT ![t].pc = "spawn", ![t].port = port', ![t].mcp = mcp_port']
  /\ out' = Quiet
  /\ UNCHANGED <<status, child, procs, conf, logs, exited>>

\* the failures of do_start between the port write and the spawn (launcher,
\* workspace or sidecar binary not found, directories or config not written)
\* and of the spawn itself; the caller catches them: set_status(Error(e))
SpawnFailures == {"launcher_not_found", "workspace_not_found", "sidecar_not_found",
                  "write_config", "spawn_failed"}

SpawnFails(t) ==
  /\ At(t, "spawn")
  /\ \E k \in SpawnFailures : set_error(t, Msg(k, 0))

\* .spawn() succeeds: a new sidecar process runs
SpawnOk(t) ==
  /\ At(t, "spawn")
  /\ Free # {}
  /\ LET q == CHOOSE q \in Free : \A r \in Free : q <= r
     IN /\ pstate' = [pstate EXCEPT ![q] = "alive"]
        /\ th' = [th EXCEPT ![t].pc = "store", ![t].spawned = Some(q)]
        /\ out' = Act("spawn", q)
  /\ UNCHANGED <<shared, payload, handler, conf, logs, exited>>

\* s.child = Some(child); spawn_event_handler(rx, ..)
StoreChild(t) ==
  /\ At(t, "store")
  /\ child' = th[t].spawned
  /\ handler' = [handler EXCEPT ![Unwrap(th[t].spawned)] = "recv"]
  /\ th' = [th EXCEPT ![t].pc = "h_check", ![t].i = 0]
  /\ out' = Quiet
  /\ UNCHANGED <<status, port, mcp_port, pstate, payload, conf, logs, exited>>

\* health loop, the check under the lock: the child is there
HealthCheckPresent(t) ==
  /\ At(t, "h_check")
  /\ child # None
  /\ Goto(t, "h_req")
  /\ out' = Quiet
  /\ UNCHANGED <<shared, procs, conf, logs, exited>>

\* a prober that keeps polling after the handle is gone (variant refuted by
\* C11_ProberStops)
HealthCheckGoneGoesOn(t) ==
  /\ At(t, "h_check")
  /\ child = None
  /\ status.tag = "Error"
  /\ Goto(t, "h_req")
  /\ out' = Quiet
  /\ UNCHANGED <<shared, procs, conf, logs, exited>>

\* health loop: s.child.is_none() and the status is Error(msg): return Err(msg)
HealthCheckGoneError(t) ==
  /\ At(t, "h_check")
  /\ child = None
  /\ status.tag = "Error"
  /\ Leave(t, "err_set", status.msg)
  /\ out' = Quiet
  /\ UNCHANGED <<shared, procs, conf, logs, exited>>

\* health loop: s.child.is_none() and the status is no Error: generic message
HealthCheckGoneOther(t) ==
  /\ At(t, "h_check")
  /\ child = None
  /\ status.tag # "Error"
  /\ Leave(t, "inner_set", Msg("exited_before_healthy", 0))
  /\ out' = Quiet
  /\ UNCHANGED <<shared, procs, conf, logs, exited>>

\* client.get(&health_url): a success response (the sidecar of this start answers)
HealthReqOk(t) ==
  /\ At(t, "h_req")
  /\ th[t].spawned \subseteq Alive
  /\ th' = [th EXCEPT ![t] = [IdleT EXCEPT !.pc = "run_set", !.port = th[t].port,
                                          !.spawned = th[t].spawned]]
  /\ out' = Act("health_req", th[t].port)
  /\ UNCHANGED <<shared, procs, conf, logs, exited>>

\* a health loop without a budget (variant refuted by C14_RestartEnds)
HealthReqFailForever(t) ==
  /\ At(t, "h_req")
  /\ Goto(t, "h_check")
  /\ out' = Act("health_req", th[t].port)
  /\ UNCHANGED <<shared, procs, conf, logs, exited>>

\* client.get(&health_url): no success; next iteration, or the loop is over
HealthReqFail(t) ==
  /\ At(t, "h_req")
  /\ IF th[t].i + 1 < conf.polls
     THEN th' = [th EXCEPT ![t].i = @ + 1, ![t].pc = "h_check"]
     ELSE th' = [th EXCEPT ![t] = [IdleT EXCEPT !.pc = "h_final", !.spawned = th[t].spawned]]
  /\ out' = Act("health_req", th[t].port)
  /\ UNCHANGED <<shared, procs, conf, logs, exited>>

\* healthy: set_status(Running)
RunSet(t) ==
  /\ At(t, "run_set")
  /\ set_status(t, Running, "run_emit")

\* ... and Ok(port)
EmitRunning(t) ==
  /\ At(t, "run_emit")
  /\ emit_after(t, "idle", Ok(th[t].port))

\* not healthy, final check: the status is Error(msg): return Err(msg)
HealthFinalError(t) ==
  /\ At(t, "h_final")
  /\ status.tag = "Error"
  /\ Leave(t, "err_set", status.msg)
  /\ out' = Quiet
  /\ UNCHANGED <<shared, procs, conf, logs, exited>>

\* not healthy, final check: health check timed out
HealthFinalTimeout(t) ==
  /\ At(t, "h_final")
  /\ status.tag # "Error"
  /\ Leave(t, "inner_set", Msg("health_check_timed_out", 0))
  /\ out' = Quiet
  /\ UNCHANGED <<shared, procs, conf, logs, exited>>

\* do_start's own set_status(Error(err)) before it returns Err(err)
InnerSet(t) ==
  /\ At(t, "inner_set")
  /\ set_status(t, Error(th[t].err), "inner_emit")

InnerEmit(t) ==
  /\ At(t, "inner_emit")
  /\ emit_after(t, "err_set", NoRet)

\* start_opencode_server: Err(e) => set_status(Error(e)); Err(e)
ErrSet(t) ==
  /\ At(t, "err_set")
  /\ set_error(t, th[t].err)

ErrEmit(t) ==
  /\ At(t, "err_emit")
  /\ emit_after(t, "idle", Err(th[t].err))

(* ---- the sidecar process and its event handler ------------------------- *)
\* the sidecar exits on its own with an exit code
ProcExit(p) ==
  /\ ~exited
  /\ pstate[p] = "alive"
  /\ \E c \in ExitCodes :
       /\ pstate' = [pstate EXCEPT ![p] = "dead"]
       /\ payload' = [payload EXCEPT ![p] = Payload(Some(c), None)]
  /\ out' = Quiet
  /\ UNCHANGED <<shared, handler, th, conf, logs, exited>>

\* the user message of handle_process_exit
user_msg(pl) ==
  IF pl.code # None THEN Msg("exited_code", Unwrap(pl.code))
  ELSE IF pl.signal # None THEN Msg("signal", Unwrap(pl.signal))
  ELSE Msg("stopped_unexpectedly", 0)

\* an Exit Handler that records every exit as an error (variant refuted by
\* C8_ExitHandlerStatus)
exit_status_always_error(pl) == Error(user_msg(pl))

\* the status handle_process_exit writes
exit_status(pl) ==
  IF pl.code = Some(0) THEN Stopped ELSE Error(user_msg(pl))

\* an Exit Handler that leaves a Running status alone (variant refuted by
\* C10_ExitThenUnknown)
handle_process_exit_keeps_running(pl) ==
  /\ child' = None
  /\ status' = IF status.tag = "Running" THEN status ELSE exit_status(pl)
  /\ out' = Out(StatusPayload(status', port), TRUE, "none", 0, NoRet)
  /\ UNCHANGED <<port, mcp_port>>

\* fn handle_process_exit, the whole of it under the lock
handle_process_exit(pl) ==
  /\ child' = None
  /\ status' = exit_status(pl)
  /\ out' = Out(StatusPayload(status', port), TRUE, "none", 0, NoRet)
  /\ UNCHANGED <<port, mcp_port>>

\* an event loop that goes on receiving after Terminated (variant refuted by
\* C9_ExitHandledOnce)
HandleExitGoesOn(p) ==
  /\ ~exited
  /\ handler[p] = "recv"
  /\ pstate[p] = "dead"
  /\ handle_process_exit(payload[p])
  /\ UNCHANGED <<pstate, payload, handler, th, conf, logs, exited>>

\* process_events: CommandEvent::Terminated => handle_process_exit; return
HandleExit(p) ==
  /\ ~exited
  /\ handler[p] = "recv"
  /\ pstate[p] = "dead"
  /\ handle_process_exit(payload[p])
  /\ handler' = [handler EXCEPT ![p] = "done"]
  /\ UNCHANGED <<pstate, payload, th, conf, logs, exited>>

(* ---- process_events: the output lines of the sidecar -------------------- *)
NOISY_PATTERNS ==
  {"path=/mcp request", "path=/global/health request", "service=server method=",
   "service=server status=", "service=bus type=", "service=tool.registry",
   "service=permission"}

\* a line is the concatenation of its words; " " is white space
Words == {" ", "ERROR", "WARN", "WARNING", "INFO", "DEBUG", "TRACE", "text"}
           \cup NOISY_PATTERNS
Lines == UNION {[1..n -> Words] : n \in 0..MaxLine}
\* CommandEvent::Stdout(line), CommandEvent::Stderr(line)
LineEvent(stream, line) == [stream |-> stream, line |-> line]
LineEvents == {LineEvent(st, l) : st \in {"stdout", "stderr"}, l \in Lines}

RECURSIVE trim_start(_)
trim_start(l) == IF l # <<>> /\ Head(l) = " " THEN trim_start(Tail(l)) ELSE l
RECURSIVE trim_end(_)
trim_end(l) ==
  IF l # <<>> /\ l[Len(l)] = " " THEN trim_end(SubSeq(l, 1, Len(l) - 1)) ELSE l
\* str::starts_with, for the prefixes the source asks for
starts_with(l, prefix) ==
  /\ l # <<>>
  /\ \/ Head(l) = prefix
     \/ Head(l) = "WARNING" /\ prefix = "WARN"

\* a noise filter that looks at the start of the line only (variant refuted
\* by C21_NoiseAtTrace)
is_noisy_at_start(l) == l # <<>> /\ Head(l) \in NOISY_PATTERNS

\* fn is_noisy_sidecar_line
is_noisy_sidecar_line(l) == \E i \in 1..Len(l) : l[i] \in NOISY_PATTERNS

\* a level parser whose default is info (variant refuted by C22_LineLevel)
parse_sidecar_level_info(l) ==
  LET trimmed == trim_start(l) IN
  IF starts_with(trimmed, "ERROR") THEN "error"
  ELSE IF starts_with(trimmed, "WARN") THEN "warn"
  ELSE IF starts_with(trimmed, "DEBUG") THEN "debug"
  ELSE "info"

\* fn parse_sidecar_level
parse_sidecar_level(l) ==
  LET trimmed == trim_start(l) IN
  IF starts_with(trimmed, "ERROR") THEN "error"
  ELSE IF starts_with(trimmed, "WARN") THEN "warn"
  ELSE IF starts_with(trimmed, "DEBUG") THEN "debug"
  ELSE IF starts_with(trimmed, "INFO") THEN "info"
  ELSE "warn"

\* log::error!, warn!, info!, debug!, trace!
Logged(level) == Act(level, 0)
LogLevels == {"error", "warn", "info", "debug", "trace"}

(* ---- logging.rs: AppLogger and its ring buffer -------------------------- *)
\* log::Level as a number: Error = 1 .. Trace = 5
LevelRank(level) ==
  CASE level = "error" -> 1
    [] level = "warn" -> 2
    [] level = "info" -> 3
    [] level = "debug" -> 4
    [] level = "trace" -> 5

\* level_str of AppLogger::log
level_str(level) ==
  CASE level = "error" -> "ERROR"
    [] level = "warn" -> "WARN"
    [] level = "info" -> "INFO"
    [] level = "debug" -> "DEBUG"
    [] level = "trace" -> "TRACE"

\* LogEntry; the message (and the timestamp) of the n-th call is held as n
LogEntry(level, n) == [level |-> level, message |-> n]

\* AppLogger::enabled: metadata.level() <= log::Level::Debug
enabled(level) == LevelRank(level) <= LevelRank("debug")

\* a push that evicts nothing (variant refuted by C39_RingBuffer)
push_no_evict(buf, entry) == Append(buf, entry)

\* buf.push_back(entry); if buf.len() > MAX_ENTRIES { buf.pop_front(); }
push(buf, entry) ==
  LET pushed == Append(buf, entry)
  IN  IF Len(pushed) > MAX_ENTRIES THEN Tail(pushed) ELSE pushed

\* AppLogger::log for the call number logged + 1
AppLogger_log(level) ==
  /\ logged' = logged + 1
  /\ log_buffer' = IF enabled(level)
                   THEN push(log_buffer, LogEntry(level_str(level), logged + 1))
                   ELSE log_buffer

\* a log::error! .. log::trace! of the application
LogCall ==
  /\ ~exited
  /\ logged < conf.log_calls
  /\ \E level \in LogLevels :
       /\ AppLogger_log(level)
       /\ out' = Logged(level)
  /\ UNCHANGED <<shared, procs, th, conf, exited>>

\* fn get_logs: a copy of the buffer
GetLogs ==
  /\ ~exited
  /\ out' = Returned(Ret("Logs", Len(log_buffer), log_buffer))
  /\ UNCHANGED <<shared, procs, th, conf, logs, exited>>

\* process_events, the arms Stdout and Stderr: what is logged for the event
log_line(e) ==
  LET trimmed == trim_end(e.line) IN
  IF e.stream = "stdout"
  THEN IF is_noisy_sidecar_line(trimmed) THEN Logged("trace") ELSE Logged("info")
  ELSE IF trimmed = <<>> THEN Quiet
  ELSE IF is_noisy_sidecar_line(trimmed) THEN Logged("trace")
  ELSE Logged(parse_sidecar_level(trimmed))

\* process_events receives a line of the sidecar p (lines are observed only
\* in the instances that name them) and logs it, unless it is an empty line
\* of stderr
LogLine(p) ==
  /\ ~exited
  /\ handler[p] = "recv"
  /\ \E e \in conf.lines :
       /\ out' = log_line(e)
       /\ IF log_line(e).act \in LogLevels
          THEN logged < conf.log_calls /\ AppLogger_log(log_line(e).act)
          ELSE UNCHANGED logs
  /\ UNCHANGED <<shared, procs, th, conf, exited>>

(* ---- stop_all, restart_opencode ---------------------------------------- *)
\* stop_all: no child and mcp_port == 0: return at once
StopEarlyReturn(t) ==
  /\ NewCall(t) /\ CanSpawn
  /\ child = None /\ mcp_port = 0
  /\ Set(t, [IdleT EXCEPT !.pc = "r_reap"])
  /\ out' = Returned(Unit)
  /\ UNCHANGED <<shared, procs, conf, logs, exited>>

\* stop_all: (mcp_port, has_child) copied out under the lock
StopRead(t) ==
  /\ NewCall(t) /\ CanSpawn
  /\ ~(child = None /\ mcp_port = 0)
  /\ Set(t, [IdleT EXCEPT !.pc = IF mcp_port > 0 THEN "x_shutdown" ELSE "x_kill",
                          !.mcp = mcp_port])
  /\ out' = Quiet
  /\ UNCHANGED <<shared, procs, conf, logs, exited>>

\* the three outcomes of the POST in shutdown_mcp_server
ShutdownOutcomes == {"success", "http_error", "network_error"}

\* a shutdown request sent to the MCP port itself (variant refuted by
\* C26_ShutdownThenKill)
StopShutdownToMcpPort(t) ==
  /\ At(t, "x_shutdown")
  /\ \E o \in ShutdownOutcomes : Leave(t, "x_kill", Msg(o, 0))
  /\ out' = Act("shutdown_req", th[t].mcp)
  /\ UNCHANGED <<shared, procs, conf, logs, exited>>

\* stop_all step 1: shutdown_mcp_server(mcp_port), then the 1.5 s sleep
StopShutdown(t) ==
  /\ At(t, "x_shutdown")
  /\ \E o \in ShutdownOutcomes : Leave(t, "x_kill", Msg(o, 0))
  /\ out' = Act("shutdown_req", wrapping_add(th[t].mcp, 10))
  /\ UNCHANGED <<shared, procs, conf, logs, exited>>

\* a stop_all that resets the state and leaves the child alone (variant
\* refuted by C7_StopAllKills)
stop_all_kill_spares_child ==
  /\ status' = Stopped
  /\ port' = 0
  /\ mcp_port' = 0
  /\ out' = Out(StatusPayload(status', 0), TRUE, "kill", 0, Unit)
  /\ UNCHANGED <<child, pstate, payload>>

\* stop_all step 2, under the lock: child.take() is killed, the status is
\* Stopped, the ports are 0, and the event is emitted
stop_all_kill ==
  /\ Killed(child)
  /\ child' = None
  /\ status' = Stopped
  /\ port' = 0
  /\ mcp_port' = 0
  /\ out' = Out(StatusPayload(status', 0), TRUE, "kill",
                IF child = None THEN 0 ELSE Unwrap(child), Unit)

\* (what shutdown_mcp_server logged stays with the task until restart_opencode goes on)
StopKill(t) ==
  /\ At(t, "x_kill")
  /\ stop_all_kill
  /\ Leave(t, "r_reap", th[t].err)
  /\ UNCHANGED <<handler, conf, logs, exited>>

\* restart_opencode: cleanup_stale_processes() after stop_all, then the
\* 500 ms sleep and start_opencode_server
RestartReap(t) ==
  /\ At(t, "r_reap")
  /\ cleanup_stale_processes
  /\ out' = Act("reap", 0)
  /\ Leave(t, "s_guard", NoMsg)
  /\ UNCHANGED <<shared, handler, conf, logs, exited>>

(* ---- poll_studio_status ------------------------------------------------ *)
\* a poll that asks OpenCode whatever the status is (variant refuted by
\* C17_NotRunningNoRequest)
PollNotRunningAsks(t) ==
  /\ NewCall(t)
  /\ status.tag # "Running"
  /\ Done(t)
  /\ out' = Out(NoEvent, FALSE, "mcp_req", port, StudioStatusResult("unknown", 0))
  /\ UNCHANGED <<shared, procs, conf, logs, exited>>

\* the status is not Running: "unknown" at once
PollNotRunning(t) ==
  /\ NewCall(t)
  /\ status.tag # "Running"
  /\ Done(t)
  /\ out' = Returned(StudioStatusResult("unknown", 0))
  /\ UNCHANGED <<shared, procs, conf, logs, exited>>

\* crate::paths::workspace_dir()? fails (no home directory, or ~/BloxBot
\* cannot be created): the poll returns the error before any request
PollWorkspaceFails(t) ==
  /\ NewCall(t)
  /\ status.tag = "Running"
  /\ Done(t)
  /\ out' = Returned(PollErr(Msg("workspace_dir", 0)))
  /\ UNCHANGED <<shared, procs, conf, logs, exited>>

\* a step 1 that knows needs_auth only (variant refuted by
\* C18_PrimaryMappingCode)
mcp_step_needs_auth_only(a) ==
  IF a.kind # "entry" THEN Msg("unknown", 0)
  ELSE CASE a.status = "failed" -> Msg("failed", a.error)
         [] a.status = "disabled" -> Msg("disabled", 0)
         [] a.status = "needs_auth" -> Msg("needs_auth", 0)
         [] a.status = "connected" -> NoMsg
         [] OTHER -> Msg("unknown", 0)

\* the result of step 1: the message of a final StudioStatusResult, or
\* NoMsg when mcp_connected is set and step 2 follows
mcp_step(a) ==
  IF a.kind # "entry" THEN Msg("unknown", 0)
  ELSE LET rs_status == IF a.status = "" THEN "unknown" ELSE a.status
       IN  CASE rs_status = "failed" -> Msg("failed", a.error)
             [] rs_status = "disabled" -> Msg("disabled", 0)
             [] rs_status \in {"needs_auth", "needs_client_registration"}
                  -> Msg("needs_auth", 0)
             [] rs_status = "connected" -> NoMsg
             [] OTHER -> Msg("unknown", 0)

\* a step 2 that takes a body without a boolean pluginConnected for a failure
\* (variant refuted by C19_HelperMapping)
health_step_strict(a) ==
  CASE a.kind = "ok" /\ a.plugin = "true" -> Msg("connected", 0)
    [] a.kind = "ok" /\ a.plugin = "false" -> Msg("disconnected", 0)
    [] a.kind = "http_error" -> Msg("failed", a.code)
    [] OTHER -> Msg("failed", 0)

\* the result of step 2; the error of a non-success response is
\* format!("HTTP {}", resp.status()), held as the status code
health_step(a) ==
  CASE a.kind = "ok" ->
         LET plugin_connected == (a.plugin = "true")
         IN  Msg(IF plugin_connected THEN "connected" ELSE "disconnected", 0)
    [] a.kind = "http_error" -> Msg("failed", a.code)
    [] OTHER -> Msg("failed", 0)

\* the status is Running: (port, mcp_port) are copied out under the lock and
\* OpenCode is asked for the MCP server status, which is not "connected".
\* (The poll writes nothing and reads the state once: its requests are part
\* of the step.)
PollMcp(t) ==
  /\ NewCall(t)
  /\ status.tag = "Running"
  /\ \E a \in conf.mcp :
       /\ mcp_step(a) # NoMsg
       /\ out' = Out(NoEvent, FALSE, "mcp_req", port, Ret("Studio", 0, mcp_step(a)))
  /\ Done(t)
  /\ UNCHANGED <<shared, procs, conf, logs, exited>>

\* ... which is "connected": the MCP bridge health endpoint is polled
PollHealth(t) ==
  /\ NewCall(t)
  /\ status.tag = "Running"
  /\ \E a \in conf.mcp : mcp_step(a) = NoMsg
  /\ \E a \in conf.health :
       out' = Out(NoEvent, FALSE, "mcp_req_health_req", mcp_port,
                  Ret("Studio", 0, health_step(a)))
  /\ Done(t)
  /\ UNCHANGED <<shared, procs, conf, logs, exited>>

(* ---- get_mcp_url -------------------------------------------------------- *)
\* fn get_mcp_url: the MCP port is read under the lock; 0 is the error, any
\* other port is made into the loopback URL
GetMcpUrl ==
  /\ ~exited
  /\ out' = Returned(IF mcp_port = 0 THEN UrlErr ELSE Url(mcp_port))
  /\ UNCHANGED <<shared, procs, th, conf, logs, exited>>

(* ---- get_opencode_status ------------------------------------------------ *)
\* a snapshot query that leaves the port out (variant refuted by
\* C32_QueriesReadOnly)
GetOpencodeStatusNoPort ==
  /\ ~exited
  /\ out' = Returned(Snapshot(status, 0))
  /\ UNCHANGED <<shared, procs, th, conf, logs, exited>>

\* fn get_opencode_status: (s.status.clone(), s.port) under one lock
GetOpencodeStatus ==
  /\ ~exited
  /\ out' = Returned(Snapshot(status, port))
  /\ UNCHANGED <<shared, procs, th, conf, logs, exited>>

(* ---- lib.rs: the main window is closed --------------------------------- *)
\* WindowEvent::CloseRequested: s.child.take() is killed, then app.exit(0)
\* ends every task of the application
CloseRequested ==
  /\ ~exited
  /\ Killed(child)
  /\ child' = None
  /\ exited' = TRUE
  /\ th' = [t \in Callers |-> IdleT]
  /\ handler' = [p \in Procs |-> "none"]
  /\ out' = Act("exit", 0)
  /\ UNCHANGED <<status, port, mcp_port, conf, logs>>

(* ---- the system --------------------------------------------------------- *)
Next ==
  \/ \E t \in Callers :
       \/ StartGuardReturn(t)
       \/ StartGuardPass(t)
       \/ NodeDirFails(t)
       \/ SetStarting(t)
       \/ EmitStartingReap(t)
       \/ WritePorts(t)
       \/ SpawnFails(t)
       \/ SpawnOk(t)
       \/ StoreChild(t)
       \/ HealthCheckPresent(t)
       \/ HealthCheckGoneError(t)
       \/ HealthCheckGoneOther(t)
       \/ HealthReqOk(t)
       \/ HealthReqFail(t)
       \/ RunSet(t)
       \/ EmitRunning(t)
       \/ HealthFinalError(t)
       \/ HealthFinalTimeout(t)
       \/ InnerSet(t)
       \/ InnerEmit(t)
       \/ ErrSet(t)
       \/ ErrEmit(t)
       \/ StopEarlyReturn(t)
       \/ StopRead(t)
       \/ StopShutdown(t)
       \/ StopKill(t)
       \/ RestartReap(t)
       \/ PollNotRunning(t)
       \/ PollWorkspaceFails(t)
       \/ PollMcp(t)
       \/ PollHealth(t)
  \/ \E p \in Procs : ProcExit(p) \/ HandleExit(p)
  \/ CloseRequested

Spec == Init /\ [][Next]_vars

\* start_opencode_server from its guard to its return, and what the sidecars
\* and their event handlers do meanwhile
StartSteps(t) ==
  \/ StartGuardPass(t)
  \/ NodeDirFails(t)
  \/ SetStarting(t)
  \/ EmitStartingReap(t)
  \/ WritePorts(t)
  \/ SpawnFails(t)
  \/ SpawnOk(t)
  \/ StoreChild(t)
  \/ HealthCheckPresent(t)
  \/ HealthCheckGoneError(t)
  \/ HealthCheckGoneOther(t)
  \/ HealthReqOk(t)
  \/ HealthReqFail(t)
  \/ RunSet(t)
  \/ EmitRunning(t)
  \/ HealthFinalError(t)
  \/ HealthFinalTimeout(t)
  \/ InnerSet(t)
  \/ InnerEmit(t)
  \/ ErrSet(t)
  \/ ErrEmit(t)

\* the application boots and no command is invoked: the auto-start task is the
\* only call, with the health loop of the source
InitBoot ==
  /\ InitState
  /\ conf = Conf(HEALTH_ATTEMPTS, {"c1"})

NextBoot ==
  \/ \E t \in Callers : StartSteps(t)
  \/ \E p \in Procs : ProcExit(p) \/ HandleExit(p)

SpecBoot == InitBoot /\ [][NextBoot]_vars

\* two calls of start_opencode_server are at its entry while the status is
\* Stopped (the auto-start task, and a restart_opencode whose stop_all had
\* nothing to stop), and no other call is made
InitRapid ==
  /\ status = Stopped
  /\ port = 0
  /\ mcp_port = 0
  /\ child = None
  /\ pstate = [p \in Procs |-> "none"]
  /\ payload = [p \in Procs |-> NoPayload]
  /\ handler = [p \in Procs |-> "none"]
  /\ th = [t \in Callers |-> [IdleT EXCEPT !.pc = "s_guard"]]
  /\ out = Act("reap", 0)
  /\ exited = FALSE
  /\ NoLogs
  /\ conf = Conf(MaxPolls, Callers)

NextRapid ==
  \/ \E t \in Callers : StartGuardReturn(t) \/ StartSteps(t)
  \/ \E p \in Procs : ProcExit(p) \/ HandleExit(p)

SpecRapid == InitRapid /\ [][NextRapid]_vars

\* each event handler runs on a thread of its own (spawn_event_handler), so the
\* Terminated event it waits for is handled once it is there
FairRapid == SpecRapid /\ \A p \in Procs : WF_vars(HandleExit(p))

\* restart_opencode from its entry to the entry of start_opencode_server
RestartSteps(t) ==
  \/ StopEarlyReturn(t)
  \/ StopRead(t)
  \/ StopShutdown(t)
  \/ StopKill(t)
  \/ RestartReap(t)

\* the auto-start has ended with Running, its sidecar runs, and the only
\* command invoked from then on is restart_opencode, one call at a time, with
\* the health loop of the source
AutoStartRunning ==
  /\ status = Running
  /\ port = OC_PORT_START
  /\ mcp_port = MCP_PORT_START
  /\ child = Some(1)
  /\ pstate = [p \in Procs |-> IF p = 1 THEN "alive" ELSE "none"]
  /\ payload = [p \in Procs |-> NoPayload]
  /\ handler = [p \in Procs |-> IF p = 1 THEN "recv" ELSE "none"]
  /\ th = [t \in Callers |-> IdleT]
  /\ out = Out(StatusPayload(Running, OC_PORT_START), FALSE, "none", 0, Ok(OC_PORT_START))
  /\ exited = FALSE
  /\ NoLogs

InitRestart ==
  /\ AutoStartRunning
  /\ conf = Conf(HEALTH_ATTEMPTS, {"c1"})

NextRestart ==
  \/ \E t \in Callers : RestartSteps(t) \/ StartSteps(t)
  \/ \E p \in Procs : ProcExit(p) \/ HandleExit(p)

SpecRestart == InitRestart /\ [][NextRestart]_vars

\* as SpecRestart, and the frontend asks for the URL of the MCP server at any
\* moment
NextUrl ==
  \/ NextRestart
  \/ GetMcpUrl

SpecUrl == InitRestart /\ [][NextUrl]_vars

\* the auto-start has ended with an error before it allocated ports
AutoStartFailed ==
  LET e == Msg("nodejs_dir_not_found", 0) IN
  /\ status = Error(e)
  /\ port = 0
  /\ mcp_port = 0
  /\ child = None
  /\ pstate = [p \in Procs |-> "none"]
  /\ payload = [p \in Procs |-> NoPayload]
  /\ handler = [p \in Procs |-> "none"]
  /\ th = [t \in Callers |-> IdleT]
  /\ out = Out(StatusPayload(Error(e), 0), FALSE, "none", 0, Err(e))
  /\ exited = FALSE
  /\ NoLogs

\* poll_studio_status as a function of what the two servers answer: the
\* auto-start is over, with Running or with an error, the answers of this
\* instance are one of McpAnswers and one of HealthAnswers, and the only
\* command invoked is the poll
InitPoll ==
  /\ AutoStartRunning \/ AutoStartFailed
  /\ \E a \in McpAnswers, h \in HealthAnswers :
       conf = [Conf(HEALTH_ATTEMPTS, {"c1"}) EXCEPT !.mcp = {a}, !.health = {h}]

NextPoll ==
  \E t \in Callers :
    \/ PollNotRunning(t)
    \/ PollWorkspaceFails(t)
    \/ PollMcp(t)
    \/ PollHealth(t)

SpecPoll == InitPoll /\ [][NextPoll]_vars

\* as SpecPoll, and the frontend asks for the snapshot at any moment while
\* the sidecar can exit and its exit be handled
NextQuery ==
  \/ NextPoll
  \/ GetOpencodeStatus
  \/ \E p \in Procs : ProcExit(p) \/ HandleExit(p)

SpecQuery == InitPoll /\ [][NextQuery]_vars

\* find_available_port as a function of the ports that cannot be bound: a
\* start is about to allocate, and the busy ports of this instance are any
\* ports of one band and of its two neighbours
AllocPorts(start) == (start - 1) .. (start + PORT_RANGE)

InitAlloc ==
  /\ status = Starting
  /\ port = 0
  /\ mcp_port = 0
  /\ child = None
  /\ pstate = [p \in Procs |-> "none"]
  /\ payload = [p \in Procs |-> NoPayload]
  /\ handler = [p \in Procs |-> "none"]
  /\ th = [t \in Callers |-> IF t = "c1" THEN [IdleT EXCEPT !.pc = "ports"] ELSE IdleT]
  /\ out = Out(StatusPayload(Starting, 0), FALSE, "reap", 0, NoRet)
  /\ exited = FALSE
  /\ NoLogs
  /\ \E busy \in SUBSET AllocPorts(OC_PORT_START) \cup SUBSET AllocPorts(MCP_PORT_START) :
       conf = [Conf(HEALTH_ATTEMPTS, {"c1"}) EXCEPT !.busy = {busy}]

NextAlloc == \E t \in Callers : WritePorts(t)

SpecAlloc == InitAlloc /\ [][NextAlloc]_vars

\* one start from its guard to the write of its ports, for every set of busy
\* ports in and around one band
InitReap ==
  /\ InitState
  /\ \E busy \in SUBSET AllocPorts(OC_PORT_START) \cup SUBSET AllocPorts(MCP_PORT_START) :
       conf = [Conf(HEALTH_ATTEMPTS, {"c1"}) EXCEPT !.busy = {busy}]

NextReap ==
  \E t \in Callers :
    \/ StartGuardPass(t)
    \/ NodeDirFails(t)
    \/ SetStarting(t)
    \/ EmitStartingReap(t)
    \/ WritePorts(t)

SpecReap == InitReap /\ [][NextReap]_vars

\* process_events as a function of the line: the sidecar of the auto-start
\* runs and sends one of LineEvents, again and again
InitLog ==
  /\ AutoStartRunning
  /\ \E e \in LineEvents : conf = [Conf(HEALTH_ATTEMPTS, {"c1"}) EXCEPT !.lines = {e}]

NextLog == \E p \in Procs : LogLine(p)

SpecLog == InitLog /\ [][NextLog]_vars

\* the logger on its own: the buffer is empty, or MAX_ENTRIES - 2 calls at
\* level info have been made, and MaxLogCalls calls of any level follow, with
\* get_logs at any moment
InitLogBuf ==
  /\ status = Stopped
  /\ port = 0
  /\ mcp_port = 0
  /\ child = None
  /\ pstate = [p \in Procs |-> "none"]
  /\ payload = [p \in Procs |-> NoPayload]
  /\ handler = [p \in Procs |-> "none"]
  /\ th = [t \in Callers |-> IdleT]
  /\ out = Quiet
  /\ exited = FALSE
  /\ \E n \in {0, MAX_ENTRIES - 2} :
       /\ logged = n
       /\ log_buffer = [i \in 1..n |-> LogEntry(level_str("info"), i)]
       /\ conf = [Conf(HEALTH_ATTEMPTS, {"c1"}) EXCEPT !.log_calls = n + MaxLogCalls]

NextLogBuf ==
  \/ LogCall
  \/ GetLogs

SpecLogBuf == InitLogBuf /\ [][NextLogBuf]_vars

\* a call in progress goes on: the tokio runtime keeps polling a task that can
\* proceed, and every await of these calls ends (a lock that is held for one
\* critical section, a sleep, a request with a timeout)
CallGoesOn(t) ==
  /\ th[t].pc # "idle"
  /\ StartSteps(t) \/ RestartSteps(t)

FairRestart ==
  /\ SpecRestart
  /\ \A t \in Callers : WF_vars(CallGoesOn(t))
  /\ \A p \in Procs : WF_vars(HandleExit(p))

(* ---- properties --------------------------------------------------------- *)
\* the task t takes a step of its call (and the application goes on)
Steps(t) == th'[t] # th[t] /\ ~exited'
\* stop_all returns to restart_opencode in this step
StopAllReturns(t) == th[t].pc \in {"idle", "x_kill"} /\ th'[t].pc = "r_reap"
\* the event handler of p handles the Terminated event in this step
ExitHandled(p) == handler[p] = "recv" /\ handler'[p] = "done"

\* C1: when two calls of start_opencode_server are issued while the status is
\* Stopped and stop_all is never called, no second sidecar is spawned
\* (SpecRapid).  The source checks the guard and writes Starting in two
\* separate critical sections, and both calls pass.
C1_OneSpawn == Cardinality({p \in Procs : pstate[p] # "none"}) <= 1

\* C2: a start_opencode_server that returns at its guard (status Starting or
\* Running) returns the port of the start that launched the sidecar, so never 0.
\* The source returns s.port, which is still 0 until do_start has written it.
C2_GuardPort ==
  [][\A t \in Callers :
       (At(t, "s_guard") /\ status.tag \in {"Starting", "Running"} /\ Steps(t))
         => out'.ret.port # 0]_vars

\* C3: start_opencode_server called while the status is Starting or Running
\* changes neither status, port, mcp_port nor child, emits no event, kills and
\* spawns nothing, and returns Ok(port).
C3_GuardNoOp ==
  [][\A t \in Callers :
       (At(t, "s_guard") /\ status.tag \in {"Starting", "Running"} /\ Steps(t))
         => /\ UNCHANGED <<status, port, mcp_port, child>>
            /\ UNCHANGED <<pstate, payload, handler>>
            /\ out'.ev = NoEvent
            /\ out'.act = "none"
            /\ out'.ret = Ok(port)
            /\ th'[t] = IdleT]_vars

\* a call has just returned at the guard while the sidecar runs
C3_Witness ==
  /\ out = Returned(Ok(port))
  /\ status.tag = "Running"
  /\ child # None
  /\ port # 0

\* C4 (for Running; Starting is written before the spawn in every start): while
\* the application runs, status Running implies that the child is present.
\* The source writes Running after a successful health response without
\* looking at the child again, which the Exit Handler may have cleared.
C4_RunningHasHandle == (status.tag = "Running" /\ ~exited) => child # None

\* C5 (the "if" half): while a sidecar that a start has stored is alive (not
\* terminated, not killed), the child is present.  The Exit Handler clears the
\* child for the termination of any sidecar, also of one that is not the child.
C5_LiveHasHandle ==
  ~exited => \A p \in Procs : (handler[p] = "recv" /\ pstate[p] = "alive") => child # None

\* C6: when stop_all returns, the status is Stopped and both ports are 0.
\* The source returns at once, changing nothing, when there is no child and
\* mcp_port is 0.
C6_StopAllStopped ==
  [][\A t \in Callers :
       StopAllReturns(t) => (status' = Stopped /\ port' = 0 /\ mcp_port' = 0)]_vars

\* C7: whatever the shutdown request came back with, stop_all goes on to kill
\* the child if there is one, and when stop_all returns the child is absent and
\* the sidecar it held is dead.
C7_StopAllKills ==
  [][\A t \in Callers :
       /\ (th[t].pc = "x_shutdown" /\ Steps(t)) => th'[t].pc = "x_kill"
       /\ StopAllReturns(t) => (child' = None /\ \A p \in child : pstate'[p] = "dead")]_vars

\* stop_all has returned after a shutdown request that failed on the network,
\* and the child it held is killed
C7_Witness ==
  /\ \E t \in Callers : th[t].pc = "r_reap" /\ th[t].err.kind = "network_error"
  /\ out.act = "kill"
  /\ out.arg \in Procs
  /\ pstate[out.arg] = "dead"
  /\ child = None

C10_ExitThenUnknown ==
  [][/\ \A p \in Procs :
          (ExitHandled(p) /\ status.tag = "Running")
            => (child' = None /\ status'.tag # "Running")
     /\ (out'.ret.kind = "Studio" /\ status.tag # "Running")
          => (out'.ret = StudioStatusResult("unknown", 0) /\ out'.act = "none")
     /\ (status.tag # "Running" /\ status'.tag = "Running")
          => \E t \in Callers : th[t].pc = "run_set" /\ th'[t].pc = "run_emit"]_vars

\* the sidecar has exited with a nonzero code, no call is in progress, and a
\* poll has just returned "unknown"
C10_Witness ==
  /\ out = Returned(StudioStatusResult("unknown", 0))
  /\ \A t \in Callers : th[t].pc = "idle"
  /\ child = None
  /\ status.tag = "Error"
  /\ status.msg.kind = "exited_code"
  /\ \E p \in Procs : handler[p] = "done"

(* ---- C11 ---------------------------------------------------------------- *)
\* the steps of start_opencode_server after the health loop was left with an error
ErrorPcs == {"inner_set", "inner_emit", "err_set", "err_emit"}

\* C11 as stated: when the cycle check of the prober finds the handle cleared
\* by the Exit Handler of the process of this start, the error start() goes
\* on to return is the error the Exit Handler recorded for that exit.
C11_ExitHandlerError ==
  [][\A t \in Callers :
       (/\ th[t].pc = "h_check" /\ child = None /\ Steps(t)
        /\ \E p \in th[t].spawned : handler[p] = "done")
         => \E p \in th[t].spawned :
              /\ exit_status(payload[p]).tag = "Error"
              /\ th'[t].err = exit_status(payload[p]).msg]_vars

\* C11, amended: when the cycle check of the prober finds the handle cleared,
\* fewer than 15 requests were made, and start() makes no further health
\* request and returns an error: the message of the status if the status is
\* Error, and "exited before becoming healthy" if it is not (the Exit
\* Handler records an exit with code 0 as Stopped).
C11_ProberStops ==
  [][\A t \in Callers :
       /\ (th[t].pc = "h_check" /\ child = None /\ Steps(t))
            => /\ th[t].i < HEALTH_ATTEMPTS
               /\ out'.act # "health_req"
               /\ th'[t].pc \in ErrorPcs
               /\ th'[t].err = IF status.tag = "Error" THEN status.msg
                                ELSE Msg("exited_before_healthy", 0)
       /\ (th[t].pc \in ErrorPcs /\ Steps(t))
            => /\ out'.act # "health_req"
               /\ \/ th'[t].pc \in ErrorPcs /\ th'[t].err = th[t].err /\ out'.ret = NoRet
                  \/ th'[t].pc = "idle" /\ out'.ret = Err(th[t].err)]_vars

\* start() has returned "exited before becoming healthy" after the Exit
\* Handler handled a clean exit of the sidecar
C11_Witness ==
  /\ out.ret = Err(Msg("exited_before_healthy", 0))
  /\ \E p \in Procs : handler[p] = "done" /\ payload[p].code = Some(0)

(* ---- C12 ---------------------------------------------------------------- *)
\* C12: when the health endpoint has answered with success and the process of
\* this start has not exited, start() takes the status from Starting to
\* Running and returns the port it allocated, which is s.port and the port of
\* the Running event.
C12_HealthyRunning ==
  [][\A t \in Callers :
       /\ (th[t].pc = "run_set" /\ Steps(t) /\ th[t].spawned \subseteq Alive)
            => /\ status = Starting /\ status' = Running
               /\ port = th[t].port
               /\ th'[t].ev = StatusPayload(Running, th[t].port)
       /\ (th[t].pc = "run_emit" /\ Steps(t) /\ th[t].spawned \subseteq Alive)
            => /\ out'.ret = Ok(th[t].port)
               /\ out'.ev = StatusPayload(Running, th[t].port)]_vars

(* ---- C13 ---------------------------------------------------------------- *)
TimedOut == Msg("health_check_timed_out", 0)

\* C13: a start() makes at most 15 health requests; when all of them failed
\* and the process of this start has not exited, start() sets the status to
\* Error with the reason "health check timed out" and returns that error.
C13_HealthBudget ==
  [][\A t \in Callers :
       /\ (out'.act = "health_req" /\ Steps(t)) => th[t].i + 1 <= HEALTH_ATTEMPTS
       /\ (th[t].pc = "h_final" /\ Steps(t) /\ th[t].spawned \subseteq Alive)
            => th'[t].pc = "inner_set" /\ th'[t].err = TimedOut
       /\ (th[t].pc \in ErrorPcs /\ th[t].err = TimedOut /\ Steps(t))
            => /\ th[t].pc \in {"inner_set", "err_set"} => status' = Error(TimedOut)
               /\ th'[t].pc = "idle" => out'.ret = Err(TimedOut)]_vars

(* ---- C14 ---------------------------------------------------------------- *)
\* C14: a restart_opencode called while the status is Running returns, the
\* event it publishes last is Running or Error, and a status Starting is
\* always followed by Running or Error, whenever the Terminated event of the
\* killed sidecar is handled (calls and event handlers scheduled fairly).
C14_RestartEnds ==
  /\ \A t \in Callers : (th[t].pc = "r_reap") ~> (th[t].pc = "idle")
  /\ (status = Starting) ~> (status.tag \in {"Running", "Error"})
  /\ [][\A t \in Callers :
          (th[t].pc \in {"run_emit", "err_emit"} /\ Steps(t))
            => /\ th'[t].pc = "idle"
               /\ out'.ev.status.tag \in {"Running", "Error"}]_vars

\* a restart has ended with Running, and the Terminated event of the sidecar
\* it killed was handled on the way
C14_Witness ==
  /\ status = Running
  /\ \A t \in Callers : th[t].pc = "idle"
  /\ out.ret = Ok(port)
  /\ \E p \in Procs : handler[p] = "done" /\ payload[p].signal = Some(SIGKILL)
  /\ child # None /\ child \subseteq Alive

(* ---- C15 ---------------------------------------------------------------- *)
\* the steps of restart_opencode before it calls start_opencode_server
RestartPcs == {"x_shutdown", "x_kill", "r_reap"}

\* C15: two calls of restart_opencode are never in progress together: while
\* one is between the entry of stop_all and its call of start_opencode_server,
\* no other is.
C15_RestartsSerial ==
  \A t1, t2 \in Callers :
    (th[t1].pc \in RestartPcs /\ th[t2].pc \in RestartPcs) => t1 = t2

(* ---- C16 ---------------------------------------------------------------- *)
\* C16: every write of the status publishes one opencode-status-changed event
\* with the status written and s.port as it is at the write: set_status keeps
\* that payload and emits it, and nothing else, at the next step of the call;
\* handle_process_exit and stop_all emit it within the step of the write; no
\* other event is published and the status changes in no other way.
C16_WriteThenEvent ==
  [][/\ \A t \in Callers :
          /\ (th[t].ev = NoEvent /\ th'[t].ev # NoEvent)
               => th'[t].ev = StatusPayload(status', port') /\ out'.ev = NoEvent
          /\ (th[t].ev # NoEvent /\ Steps(t))
               => out'.ev = th[t].ev /\ th'[t].ev = NoEvent /\ status' = status
          /\ (th[t].pc = "x_kill" /\ Steps(t))
               => out'.ev = StatusPayload(status', port') /\ status' = Stopped
     /\ \A p \in Procs :
          ExitHandled(p) => out'.ev = StatusPayload(status', port')
     /\ status' # status
          => \/ out'.ev = StatusPayload(status', port')
             \/ \E t \in Callers : th[t].ev = NoEvent /\ th'[t].ev # NoEvent
     /\ out'.ev # NoEvent
          => \/ out'.locked /\ out'.ev = StatusPayload(status', port')
             \/ \E t \in Callers : th[t].ev = out'.ev /\ Steps(t)]_vars

\* the Running event of a start has been published with the port allocated
C16_Witness ==
  /\ ~out.locked
  /\ out.ev = StatusPayload(Running, port)
  /\ port # 0
  /\ out.ret = Ok(port)

(* ---- C17 ---------------------------------------------------------------- *)
\* a step is a call of poll_studio_status
Polled == out'.ret.kind \in {"Studio", "PollErr"}

\* C17: a poll_studio_status that reads a status other than Running returns
\* status "unknown" with no error detail and sends no request.
C17_NotRunningNoRequest ==
  [][(Polled /\ status.tag # "Running")
       => /\ out'.ret = Ret("Studio", 0, Msg("unknown", 0))
          /\ out'.act = "none" /\ out'.arg = 0]_vars

\* a poll has returned "unknown" without a request while a start was polling
\* the health endpoint
C17_Witness ==
  /\ out.ret = StudioStatusResult("unknown", 0)
  /\ out.act = "none"
  /\ status = Starting
  /\ \E t \in Callers : th[t].pc = "h_req"

(* ---- C18 ---------------------------------------------------------------- *)
\* the latest step was a poll that sent a request to OpenCode
AskedMcp == out.act \in {"mcp_req", "mcp_req_health_req"}
\* ... and it went on to the health endpoint of the MCP bridge
AskedHealth == out.act = "mcp_req_health_req"
\* the status the "roblox-studio" entry of an answer reports; "" if there is none
Reported(a) == IF a.kind = "entry" THEN a.status ELSE ""

\* C18 as stated: with the status Running, a poll maps the report of OpenCode
\* for the roblox-studio server so: failed to "failed" with the detail
\* reported, disabled to "disabled", needs_auth to "needs_auth", connected to
\* step 2, and every other value, a missing entry, a non-success response or
\* a failed request to "unknown".
C18_PrimaryMapping ==
  \A a \in conf.mcp :
    (conf.mcp = {a} /\ AskedMcp)
      => CASE Reported(a) = "failed" -> ~AskedHealth /\ out.ret = StudioStatusResult("failed", a.error)
           [] Reported(a) = "disabled" -> ~AskedHealth /\ out.ret = StudioStatusResult("disabled", 0)
           [] Reported(a) = "needs_auth" -> ~AskedHealth /\ out.ret = StudioStatusResult("needs_auth", 0)
           [] Reported(a) = "connected" -> AskedHealth
           [] OTHER -> ~AskedHealth /\ out.ret = StudioStatusResult("unknown", 0)

\* C18, amended: as above, but needs_client_registration is mapped to
\* "needs_auth" like needs_auth, not to "unknown".
C18_PrimaryMappingCode ==
  \A a \in conf.mcp :
    (conf.mcp = {a} /\ AskedMcp)
      => CASE Reported(a) = "failed" -> ~AskedHealth /\ out.ret = StudioStatusResult("failed", a.error)
           [] Reported(a) = "disabled" -> ~AskedHealth /\ out.ret = StudioStatusResult("disabled", 0)
           [] Reported(a) \in {"needs_auth", "needs_client_registration"}
                -> ~AskedHealth /\ out.ret = StudioStatusResult("needs_auth", 0)
           [] Reported(a) = "connected" -> AskedHealth
           [] OTHER -> ~AskedHealth /\ out.ret = StudioStatusResult("unknown", 0)

\* OpenCode has reported needs_client_registration and the poll has returned
\* "needs_auth"
C18_Witness ==
  /\ \E a \in conf.mcp : conf.mcp = {a} /\ Reported(a) = "needs_client_registration"
  /\ out.act = "mcp_req"
  /\ out.ret = StudioStatusResult("needs_auth", 0)

(* ---- C19 ---------------------------------------------------------------- *)
\* C19: with the status Running, the health endpoint of the MCP bridge is
\* asked exactly when OpenCode reported connected; a success response gives
\* "connected" if its pluginConnected is true and "disconnected" otherwise
\* (false, absent, no boolean, body no JSON); a non-success response or a
\* failed request gives "failed".
C19_HelperMapping ==
  \A a \in conf.mcp, h \in conf.health :
    (conf.mcp = {a} /\ conf.health = {h} /\ AskedMcp)
      => /\ AskedHealth <=> Reported(a) = "connected"
         /\ AskedHealth
              => /\ out.arg = mcp_port
                 /\ IF h.kind = "ok"
                    THEN out.ret = StudioStatusResult(IF h.plugin = "true" THEN "connected"
                                                      ELSE "disconnected", 0)
                    ELSE out.ret.msg.kind = "failed"

\* the MCP bridge has answered without a pluginConnected field and the poll
\* has returned "disconnected"
C19_Witness ==
  /\ conf.health = {HealthAnswer("ok", 200, "no_field")}
  /\ AskedHealth
  /\ out.ret = StudioStatusResult("disconnected", 0)

(* ---- C20 ---------------------------------------------------------------- *)
\* the ports of the band at start that can be bound
FreeOf(start, busy) == {q \in start .. (start + PORT_RANGE - 1) : q \notin busy}
\* the lowest of them; start if there is none
LowestFree(start, busy) ==
  IF FreeOf(start, busy) = {} THEN start
  ELSE CHOOSE q \in FreeOf(start, busy) : \A r \in FreeOf(start, busy) : q <= r

\* C20: find_available_port returns the lowest port of its band that can be
\* bound, start if none can, and so always a port of the band; do_start
\* stores the results for the two bands in s.port and s.mcp_port.
C20_Allocate ==
  \A t \in Callers, busy \in conf.busy :
    (conf.busy = {busy} /\ th[t].pc = "spawn")
      => /\ port = LowestFree(OC_PORT_START, busy)
         /\ mcp_port = LowestFree(MCP_PORT_START, busy)
         /\ port \in OC_PORT_START .. (OC_PORT_START + PORT_RANGE - 1)
         /\ mcp_port \in MCP_PORT_START .. (MCP_PORT_START + PORT_RANGE - 1)
         /\ th[t].port = port

\* 59200, 59201 and 59202 are busy and 59203 has been allocated
C20_Witness ==
  /\ conf.busy = {OC_PORT_START .. (OC_PORT_START + 2)}
  /\ \E t \in Callers : th[t].pc = "spawn"
  /\ port = OC_PORT_START + 3
  /\ mcp_port = MCP_PORT_START

(* ---- C21 ---------------------------------------------------------------- *)
\* the line of the instance has been handled by process_events
Handled == out = Quiet \/ out.act \in LogLevels
\* the line holds one of the noise substrings
HoldsNoise(l) == {i \in DOMAIN l : l[i] \in NOISY_PATTERNS} # {}

\* C21: a line of stdout or stderr that holds one of NOISY_PATTERNS is logged
\* at trace, whatever it starts with.
C21_NoiseAtTrace ==
  \A e \in conf.lines :
    (conf.lines = {e} /\ Handled /\ HoldsNoise(e.line)) => out = Logged("trace")

\* a stderr line that starts with ERROR and holds a noise substring has been
\* logged at trace
C21_Witness ==
  /\ \E e \in conf.lines :
       /\ conf.lines = {e}
       /\ e.stream = "stderr"
       /\ Len(e.line) = 2 /\ e.line[1] = "ERROR" /\ e.line[2] \in NOISY_PATTERNS
  /\ out = Logged("trace")

(* ---- C22 ---------------------------------------------------------------- *)
\* the level named by the token w
TokenLevel(w) ==
  CASE w = "ERROR" -> "error"
    [] w = "WARN" -> "warn"
    [] w = "INFO" -> "info"
    [] w = "DEBUG" -> "debug"
    [] OTHER -> "warn"
\* the line without its leading and trailing white space
RECURSIVE Stripped(_)
Stripped(l) ==
  IF l = <<>> THEN l
  ELSE IF l[1] = " " THEN Stripped(SubSeq(l, 2, Len(l)))
  ELSE IF l[Len(l)] = " " THEN Stripped(SubSeq(l, 1, Len(l) - 1))
  ELSE l

\* C22 as stated: a line of stdout or stderr without a noise substring is
\* logged at the level of the token at its start (ERROR, WARN, INFO, DEBUG),
\* and at warn if it starts with no such token.
C22_TokenLevel ==
  \A e \in conf.lines :
    (conf.lines = {e} /\ Handled /\ ~HoldsNoise(e.line))
      => out = Logged(IF e.line = <<>> THEN "warn" ELSE TokenLevel(e.line[1]))

\* C22, amended: a stderr line without a noise substring is dropped if it is
\* white space only; otherwise it is logged at the level of the token that
\* follows its leading white space (ERROR, WARN, INFO, DEBUG; a word that
\* begins with such a token counts, as WARNING does), and at warn if there is
\* none. A stdout line without a noise substring is logged at info.
C22_LineLevel ==
  \A e \in conf.lines :
    (conf.lines = {e} /\ Handled /\ ~HoldsNoise(e.line))
      => IF e.stream = "stdout" THEN out = Logged("info")
         ELSE IF Stripped(e.line) = <<>> THEN out = Quiet
         ELSE LET w == Stripped(e.line)[1]
              IN  out = Logged(TokenLevel(IF w = "WARNING" THEN "WARN" ELSE w))

\* a stdout line that starts with ERROR has been logged at info
C22_Witness ==
  /\ \E e \in conf.lines :
       conf.lines = {e} /\ e.stream = "stdout" /\ e.line = <<"ERROR", " ", "text">>
  /\ out = Logged("info")

(* ---- C23 ---------------------------------------------------------------- *)
\* C23: a start that returns an error has written Error(reason) to the status
\* as its last write, has published that status, and returns the same reason;
\* a start whose spawn fails stores no handle and has spawned nothing.
C23_ErrorWrittenAndReturned ==
  [][\A t \in Callers :
       /\ (Steps(t) /\ out'.ret.kind = "Err")
            => /\ th[t].pc = "err_emit"
               /\ out'.ret = Err(th[t].err)
               /\ out'.ev.status = Error(th[t].err)
       /\ (Steps(t) /\ th'[t].pc = "err_emit")
            => /\ status' = Error(th'[t].err)
               /\ th'[t].ev.status = status'
       /\ (Steps(t) /\ th[t].pc = "spawn" /\ th'[t].pc = "err_emit")
            => /\ child' = child /\ pstate' = pstate
               /\ th'[t].spawned = None]_vars

\* a start has returned the error of a failed spawn: the status holds it and
\* no handle is stored
C23_Witness ==
  /\ out.ret = Err(Msg("spawn_failed", 0))
  /\ status = Error(Msg("spawn_failed", 0))
  /\ child = None
  /\ Alive = {}

(* ---- C24 ---------------------------------------------------------------- *)
\* the reasons handle_process_exit writes
ExitReasons == {"exited_code", "signal", "stopped_unexpectedly"}

\* the Exit Handler of some sidecar has run and its Error is the status
ExitRecorded ==
  /\ status.tag = "Error"
  /\ status.msg.kind \in ExitReasons
  /\ \E p \in Procs : handler[p] = "done"

\* C24: once the Exit Handler has recorded an unexpected exit, no sidecar is
\* spawned and the status stays Error, unless the step is the first write of a
\* newly admitted start (Starting) or the kill step of a stop_all.
C24_NoRelaunch ==
  [][ExitRecorded
       => /\ {p \in Procs : pstate'[p] # "none"} = {p \in Procs : pstate[p] # "none"}
          /\ \/ status'.tag = "Error"
             \/ \E t \in Callers : Steps(t) /\ th[t].pc \in {"admitted", "x_kill"}]_vars

(* ---- C25 ---------------------------------------------------------------- *)
\* no call is in progress and the status is the Error of a start that failed
\* (not one written by the Exit Handler)
LastStartFailed ==
  /\ \A t \in Callers : th[t].pc = "idle"
  /\ status.tag = "Error"
  /\ status.msg.kind \notin ExitReasons

\* no call is in progress and the latest write to the state was stop_all's
AfterStopAll ==
  /\ \A t \in Callers : th[t].pc = "idle"
  /\ status = Stopped
  /\ child = None
  /\ port = 0

\* C25: get_mcp_url returns the error exactly when mcp_port is 0 and otherwise
\* the loopback URL with mcp_port; it returns no URL after stop_all and none
\* when the last start failed.
C25_UrlWhileHelper ==
  out.ret.kind \in {"Url", "UrlErr"}
    => /\ (out.ret = UrlErr) <=> (mcp_port = 0)
       /\ out.ret.kind = "Url"
            => /\ out.ret = Url(mcp_port)
               /\ ~AfterStopAll
               /\ ~LastStartFailed

(* ---- C26 ---------------------------------------------------------------- *)
\* C26: a stop_all that reads a nonzero mcp_port sends one shutdown request,
\* to that port + 10, in a step of its own that kills nothing and comes before
\* its kill step; a stop_all that reads mcp_port 0 goes to the kill step at
\* once; the kill step and the read send no request.
C26_ShutdownThenKill ==
  [][\A t \in Callers :
       /\ (Steps(t) /\ th[t].pc = "idle" /\ th'[t].pc \in {"x_shutdown", "x_kill"})
            => /\ (th'[t].pc = "x_shutdown") <=> (mcp_port # 0)
               /\ th'[t].mcp = mcp_port
               /\ out'.act # "shutdown_req"
       /\ (Steps(t) /\ th[t].pc = "x_shutdown")
            => /\ out'.act = "shutdown_req"
               /\ out'.arg = th[t].mcp + 10
               /\ th'[t].pc = "x_kill"
               /\ child' = child /\ pstate' = pstate
       /\ (Steps(t) /\ th[t].pc = "x_kill")
            => /\ out'.act = "kill"
               /\ th'[t].pc = "r_reap"
       /\ (Steps(t) /\ out'.act = "shutdown_req") => th[t].pc = "x_shutdown"]_vars

\* the shutdown request of a stop_all went to 59220 and the sidecar it is
\* about to kill is still alive and held
C26_Witness ==
  /\ out.act = "shutdown_req"
  /\ out.arg = MCP_PORT_START + 10
  /\ mcp_port = MCP_PORT_START
  /\ \E t \in Callers : th[t].pc = "x_kill"
  /\ child # None
  /\ \A p \in child : pstate[p] = "alive"

(* ---- C27 ---------------------------------------------------------------- *)
\* the bands of the ports: OpenCode, MCP, and the control ports of the MCP
\* launcher
Band(start) == start .. (start + PORT_RANGE - 1)
ControlBand == Band(MCP_PORT_START + 10)

\* the start t has stored the sidecar it spawned and polls its health; the
\* control port in the configuration of that sidecar is th[t].mcp + 10
HoldsOwnChild(t) ==
  /\ th[t].pc \in {"h_check", "h_req"}
  /\ child # None
  /\ child = th[t].spawned

\* C27: the ports of the state are 0 or in their bands, a start's ports and
\* the control port it derives lie in three disjoint bands, and while the
\* sidecar a start launched is the child of the state, mcp_port is the port
\* that start wrote, so that a stop_all sends its shutdown request to the
\* control port written into that sidecar's configuration.
C27_ControlPort ==
  /\ port \in {0} \cup Band(OC_PORT_START)
  /\ mcp_port \in {0} \cup Band(MCP_PORT_START)
  /\ \A t \in Callers :
       /\ th[t].pc \in {"spawn", "store", "h_check", "h_req"}
            => /\ th[t].port \in Band(OC_PORT_START)
               /\ th[t].mcp \in Band(MCP_PORT_START)
               /\ wrapping_add(th[t].mcp, 10) = th[t].mcp + 10
               /\ th[t].mcp + 10 \in ControlBand
               /\ Cardinality({th[t].port, th[t].mcp, th[t].mcp + 10}) = 3
       /\ HoldsOwnChild(t) => mcp_port = th[t].mcp

(* ---- C28 ---------------------------------------------------------------- *)
\* C28: a start that has passed the guard and written Starting runs the
\* reaper in the step that takes it to the allocation, before either port is
\* allocated or written; the ports are allocated in no other place, and both
\* of them and the control port derived from the MCP port are among the ports
\* the reaper scans, 59200..59229.
C28_ReapThenAllocate ==
  [][\A t \in Callers :
       /\ (Steps(t) /\ th'[t].pc = "ports")
            => /\ th[t].pc = "starting_emit"
               /\ out'.act = "reap"
               /\ port' = port /\ mcp_port' = mcp_port
               /\ th'[t].port = 0 /\ th'[t].mcp = 0
       /\ (Steps(t) /\ th[t].pc = "starting_emit") => th'[t].pc = "ports"
       /\ (Steps(t) /\ th'[t].pc = "spawn")
            => /\ th[t].pc = "ports"
               /\ th'[t].port = port' /\ th'[t].mcp = mcp_port'
               /\ {port', mcp_port', wrapping_add(mcp_port', 10)} \subseteq ReaperPorts
       /\ ReaperPorts = 59200 .. 59229]_vars

\* the reaper has run and the start has allocated the last port of the MCP
\* band, whose control port 59229 is the last port the reaper scans
C28_Witness ==
  /\ \E t \in Callers : th[t].pc = "spawn" /\ th[t].mcp = MCP_PORT_START + PORT_RANGE - 1
  /\ mcp_port = 59219
  /\ wrapping_add(mcp_port, 10) = 59229
  /\ port \in ReaperPorts

(* ---- C29 ---------------------------------------------------------------- *)
\* the resolutions that can fail: the bundled Node.js directory, the workspace
\* root, the sidecar binary
ResolutionFailures == {"nodejs_dir_not_found", "workspace_not_found", "sidecar_not_found"}

\* C29: a start that fails to resolve the Node.js directory, the workspace
\* root or the sidecar binary fails before the reaper has run and before it
\* has written its ports: the step is taken right after the guard, and it
\* leaves both ports, the child and the processes as they are.
C29_ResolutionBeforeMutation ==
  [][\A t \in Callers :
       (Steps(t) /\ th[t].pc \in {"admitted", "spawn"} /\ th'[t].pc = "err_emit"
          /\ th'[t].err.kind \in ResolutionFailures)
         => /\ th[t].pc = "admitted"
            /\ th[t].port = 0 /\ th[t].mcp = 0
            /\ port' = port /\ mcp_port' = mcp_port
            /\ child' = child /\ pstate' = pstate]_vars

(* ---- C30 ---------------------------------------------------------------- *)
\* the start t is on its way out with the health timeout
LeavesTimedOut(t) == th[t].pc \in ErrorPcs /\ th[t].err = TimedOut

\* C30: a start that ends with the health timeout kills nothing and leaves the
\* handle alone; when it returns while a sidecar is alive the handle is
\* present, it holds a live sidecar and the status is Error; and the kill
\* step of a stop_all that finds this handle kills its sidecar and clears it.
C30_TimeoutKeepsHandle ==
  [][\A t \in Callers :
       /\ (Steps(t) /\ (LeavesTimedOut(t) \/ th'[t].err = TimedOut))
            => (child' = child /\ pstate' = pstate)
       /\ (Steps(t) /\ out'.ret = Err(TimedOut) /\ Alive # {})
            => /\ child' # None
               /\ child' \subseteq Alive
               /\ status'.tag = "Error"
       /\ (Steps(t) /\ th[t].pc = "x_kill" /\ status = Error(TimedOut))
            => /\ child' = None
               /\ \A p \in child : pstate'[p] = "dead"]_vars

(* ---- C31 ---------------------------------------------------------------- *)
\* the steps that send a network request or spawn a process
IoActs == {"health_req", "mcp_req", "mcp_req_health_req", "shutdown_req", "spawn"}

\* C31: no step sends a network request, spawns a process or emits a status
\* event while it holds the state lock.
C31_NoLockAcrossIo ==
  (out.act \in IoActs \/ out.ev # NoEvent) => ~out.locked

(* ---- C32 ---------------------------------------------------------------- *)
\* a step is a call of poll_studio_status or of get_opencode_status
Queried == out'.ret.kind \in {"Studio", "PollErr", "Snapshot"}

\* C32: a call of poll_studio_status or of get_opencode_status, whatever it
\* returns, leaves the status, both ports, the child and the processes as they
\* are and emits no event; get_opencode_status returns the status and the
\* port of the state it is called in.
C32_QueriesReadOnly ==
  [][Queried
       => /\ UNCHANGED <<status, port, mcp_port, child, pstate, payload, handler>>
          /\ out'.ev = NoEvent
          /\ ~out'.locked
          /\ out'.ret.kind = "Snapshot" => out'.ret = Snapshot(status, port)]_vars

\* the snapshot was asked for after the sidecar had exited with an error: it
\* holds the Error of the Exit Handler and the port 59200
C32_Witness ==
  /\ out.ret.kind = "Snapshot"
  /\ out.ret.port = OC_PORT_START
  /\ out.ret.msg.tag = "Error"
  /\ out.ret.msg = status
  /\ child = None

(* ---- C33 ---------------------------------------------------------------- *)
\* C33: when the termination of a sidecar is handled while the child of the
\* state is another sidecar, stored by a later start, the child stays and the
\* status stays.
C33_StaleEventHarmless ==
  [][\A p \in Procs :
       (ExitHandled(p) /\ child # None /\ child # Some(p))
         => (child' = child /\ status' = status)]_vars

(* ---- C34 ---------------------------------------------------------------- *)
\* the sidecar p was killed (child.kill() of stop_all, or the reaper)
WasKilled(p) == payload[p] = Payload(None, Some(SIGKILL))

\* C34: when the termination of a killed sidecar is handled while the status
\* is Stopped (stop_all has returned and no start has written since), the
\* status stays Stopped.
C34_KillNotAnError ==
  [][\A p \in Procs :
       (ExitHandled(p) /\ WasKilled(p) /\ status = Stopped) => status' = Stopped]_vars

(* ---- C35 ---------------------------------------------------------------- *)
\* C35: a start stores its child only when the state holds no child or a
\* child whose sidecar is dead, and at most one sidecar is alive.
C35_OneHandle ==
  [][/\ \A t \in Callers :
          (Steps(t) /\ th[t].pc = "store") => \A p \in child : pstate[p] # "alive"
     /\ Cardinality({p \in Procs : pstate'[p] = "alive"}) <= 1]_vars

(* ---- C36 ---------------------------------------------------------------- *)
\* C36: the step of a start that follows its successful health response
\* writes Running only with the child present, and leaves an Error that the
\* Exit Handler wrote in the meantime as it is.
C36_RunningOverError ==
  [][\A t \in Callers :
       (Steps(t) /\ th[t].pc = "run_set")
         => /\ status'.tag = "Running" => child' # None
            /\ status.tag = "Error" => status' = status]_vars

(* ---- C37 ---------------------------------------------------------------- *)
\* no call is in progress and no termination waits to be handled
Quiescent ==
  /\ \A t \in Callers : th[t].pc = "idle"
  /\ \A p \in Procs : ~(pstate[p] = "dead" /\ handler[p] = "recv")

\* C37: when the latest step emitted a status event and nothing is in
\* progress after it, that event, the most recent one, holds the status and
\* the port of the state.
C37_LastEventIsSnapshot ==
  (Quiescent /\ ~exited /\ out.ev # NoEvent) => out.ev = StatusPayload(status, port)

(* ---- C38 ---------------------------------------------------------------- *)
\* the step is the handling of CloseRequested
Closes == ~exited /\ exited'

\* C38: when the main window is closed while a child is stored and mcp_port
\* is not 0, the shutdown request to mcp_port + 10 has been sent right before
\* the child is killed; the child is killed and cleared when the application
\* exits.
C38_CloseTwoPhase ==
  [][Closes
       => /\ (child # None /\ mcp_port # 0)
               => (out.act = "shutdown_req" /\ out.arg = wrapping_add(mcp_port, 10))
          /\ child' = None
          /\ \A p \in child : pstate'[p] = "dead"]_vars

(* ---- C39 ---------------------------------------------------------------- *)
\* C39: after every call of the logger the buffer holds at most MAX_ENTRIES
\* entries, none of them at TRACE, in the order of the calls; a call at trace
\* leaves the buffer as it is; a call at another level puts its entry last,
\* after the entries that were there, less the oldest one when the buffer was
\* full and only then; get_logs returns the buffer as it is.
C39_RingBuffer ==
  [][/\ (logged' # logged)
          => LET level == out'.act
                 n == Len(log_buffer')
             IN  /\ n <= MAX_ENTRIES
                 /\ \A i \in 1..n : log_buffer'[i].level # "TRACE"
                 /\ \A i \in 1..(n - 1) : log_buffer'[i].message < log_buffer'[i + 1].message
                 /\ level = "trace" => log_buffer' = log_buffer
                 /\ level # "trace"
                      => /\ n > 0
                         /\ log_buffer'[n] = LogEntry(level_str(level), logged')
                         /\ SubSeq(log_buffer', 1, n - 1)
                              = IF Len(log_buffer) = MAX_ENTRIES THEN Tail(log_buffer)
                                ELSE log_buffer
     /\ (out'.ret.kind = "Logs")
          => (out'.ret.msg = log_buffer /\ UNCHANGED logs)]_vars

\* 5002 calls were made, one of them at trace: the buffer is full, the first
\* entry was evicted and the entry of the latest call is the last
C39_Witness ==
  /\ logged = MAX_ENTRIES + 2
  /\ Len(log_buffer) = MAX_ENTRIES
  /\ log_buffer[1].message = 2
  /\ log_buffer[MAX_ENTRIES].message = logged
  /\ log_buffer[MAX_ENTRIES].level = "ERROR"

====
